---- MODULE Spec2Model ----
(***************************************************************************)
(* Classification and triage engine of pipeline/classify_llm.py and the    *)
(* forced sweep of scripts/reclassify_all_campaigns.py.                    *)
(*                                                                         *)
(* Conventions of the model                                                *)
(*  - a confidence is an integer number of thousandths (0.65 is 650); the  *)
(*    ledger's round(conf, 2) is a number of hundredths (0.65 is 65);      *)
(*  - a text (path, file name, sample, haystack) is the set of the         *)
(*    needles of the rules that occur in it as substrings, so that         *)
(*    `needle in hay` is membership and has_any(terms, hay) is a non-empty *)
(*    intersection.  The needle sets of the documents below were computed  *)
(*    from the concrete strings given beside them;                         *)
(*  - a dict is a record; a key that Python leaves absent is NoneVal.      *)
(***************************************************************************)
EXTENDS Integers, Sequences, FiniteSets, TLC

VARIABLES
    api_key,          \* OPENAI_API_KEY is set in the environment
    tax,              \* taxonomy.yaml + patterns.yaml as loaded by main()
    extracted,        \* the records of extracted.jsonl, in file order
    ledger,           \* classified.csv: [exists, rows]
    triage_file,      \* triage_needs_review.csv: [exists, rows]
    pc,               \* position of the running main() / of the pipeline
    idx,              \* index of the line of extracted.jsonl being read
    seen_shas,        \* main(): seen_shas
    rows,             \* main(): rows
    triage_rows,      \* main(): triage_rows
    newly_processed,  \* main(): newly_processed
    attempt,          \* classify_sample(): attempt
    sleeps,           \* classify_sample(): the time.sleep() calls made for
                      \* the current document, in tenths of a second
    raw_data,         \* main(): raw_data
    data,             \* main(): data (Unbound until first assigned)
    doc_type,         \* main(): doc_type
    doc_subtype,      \* main(): doc_subtype
    conf,             \* main(): conf
    triage_reasons,   \* main(): triage_reasons
    rc,               \* return code reported by reclassify_campaign
    stage,            \* soft_override(): number of statements already run
    was_locked,       \* history: _locked has been set for this document
    extract_obj,      \* the "extract" object of one record, as a dict
    max_chars,        \* build_sample(): max_chars
    sample,           \* the string build_sample() returned
    jsonl             \* the "extract" object as written to extracted.jsonl

vars == <<api_key, tax, extracted, ledger, triage_file, pc, idx, seen_shas,
          rows, triage_rows, newly_processed, attempt, sleeps, raw_data,
          data, doc_type, doc_subtype, conf, triage_reasons, rc, stage,
          was_locked, extract_obj, max_chars, sample, jsonl>>

\* the variables of the sampling of one record
svars == <<extract_obj, max_chars, sample, jsonl>>

(***************************************************************************)
(* Bounds of the model.                                                    *)
(***************************************************************************)
MaxDocs == 2
MaxText == 93
MaxChars == 90
MaxSlides == 4

(***************************************************************************)
(* Program constants.                                                      *)
(***************************************************************************)
UNKNOWN_LABEL == "unmapped_other"
LOW_CONF_THRESHOLD == 650
MAX_RETRIES == 3
SAMPLE_CHARS == 6000
\* RETRY_BASE_SEC = 1.2, in tenths of a second
RETRY_BASE_SEC == 12

NoneVal == "<None>"
NaN == "<NaN>"
NonStr == "<int>"

\* float("nan"), which is what float() makes of the JSON literal NaN and
\* of the strings "nan" and "NaN".  It is coded by an integer above every
\* number of the model, so that `nan < x` and `nan <= x` are false as in
\* Python; max, min and round treat it as Python does.
NaNF == 999999
\* a confidence that is absent or that float() rejects ("high", null, [])
NoConf == 0 - 999999

\* Python's max(a, b) and min(a, b): b is returned only when b > a (b < a),
\* which is never the case when either is nan
\* a max that always returns its second argument
max_second(a, b) == b

Max(a, b) == IF a = NaNF \/ b = NaNF THEN a ELSE IF a >= b THEN a ELSE b
\* a min that always returns its second argument
min_second(a, b) == b

Min(a, b) == IF a = NaNF \/ b = NaNF THEN a ELSE IF a <= b THEN a ELSE b

\* round(conf, 2): thousandths to hundredths (no input of the model ends in
\* 5); round(nan, 2) is nan
Round2(c) == IF c = NaNF THEN NaNF ELSE (c + 5) \div 10

\* try: float(d.get("confidence", default)) / except: default
to_float(c, default) == IF c = NoConf THEN default ELSE c

SeqToSet(s) == {s[i] : i \in DOMAIN s}

(***************************************************************************)
(* Taxonomies.  TaxSmoke is the configuration written by                   *)
(* test_classify_llm_main_no_network, TaxUtils the allowed list of         *)
(* test_soft_override_press_release_and_pitch_email (no synonyms, no       *)
(* patterns).                                                              *)
(***************************************************************************)
TaxSmoke ==
    [labels |-> <<"press_release", "media_list", "messaging_one_pager",
                  "deck|training_materials">>,
     synonyms |-> [l \in {"press_release"} |-> {"news release"}],
     patterns |-> [l \in {"media_list"} |-> {"outlet", "reporter", "email"}]]

TaxUtils ==
    [labels |-> <<"press_release", "pitch_email", "media_response",
                  "interview_guide", "interview_question_bank",
                  "editorial_calendar", "speaking_tracker",
                  "competitive_analysis", "bio_profile", "workback_plan",
                  "timeline", "deck|training_materials",
                  "deck|analysis_report", "coverage_tracker", "story_bank",
                  "press_statement", "work_plan|strategy_memo",
                  "messaging_one_pager">>,
     synonyms |-> [l \in {} |-> {}],
     patterns |-> [l \in {} |-> {}]]

\* configs/taxonomy.yaml and configs/patterns.yaml do not exist (or are
\* empty): load_yaml returns {} for both
TaxMissing ==
    [labels |-> <<>>,
     synonyms |-> [l \in {} |-> {}],
     patterns |-> [l \in {} |-> {}]]

Taxonomies == {TaxSmoke, TaxUtils, TaxMissing}

\* a configuration with the generic label press_statement beside labels
\* that have synonyms and must_any patterns
TaxVote ==
    [labels |-> <<"press_release", "media_list", "press_statement",
                  "messaging_one_pager", "story_bank">>,
     synonyms |-> [l \in {"press_release"} |-> {"news release"}],
     patterns |-> [l \in {"media_list"} |-> {"outlet", "reporter", "email"}]]

DocTaxonomies == Taxonomies \cup {TaxVote}

\* lab.replace("_", " ").lower()
LabelPhrase(lab) ==
    CASE lab = "press_release" -> "press release"
      [] lab = "media_list" -> "media list"
      [] lab = "messaging_one_pager" -> "messaging one pager"
      [] lab = "pitch_email" -> "pitch email"
      [] lab = "media_response" -> "media response"
      [] lab = "interview_guide" -> "interview guide"
      [] lab = "interview_question_bank" -> "interview question bank"
      [] lab = "editorial_calendar" -> "editorial calendar"
      [] lab = "speaking_tracker" -> "speaking tracker"
      [] lab = "competitive_analysis" -> "competitive analysis"
      [] lab = "bio_profile" -> "bio profile"
      [] lab = "workback_plan" -> "workback plan"
      [] lab = "coverage_tracker" -> "coverage tracker"
      [] lab = "story_bank" -> "story bank"
      [] lab = "press_statement" -> "press statement"
      [] lab = "work_plan|strategy_memo" -> "work plan|strategy memo"
      [] lab = "deck|training_materials" -> "deck|training materials"
      [] lab = "deck|analysis_report" -> "deck|analysis report"
      [] OTHER -> lab

(***************************************************************************)
(* Documents: one record of extracted.jsonl each.                          *)
(*   fname  needles in Path(source_path).name.lower()                      *)
(*   path   needles in source_path.lower()                                 *)
(*   hay    needles in soft_override's hay (path, sample, file name)       *)
(*   ehay   needles in main()'s hay for enforce_extract_constraints        *)
(* The sample is build_sample() of the record as read back from the file.  *)
(***************************************************************************)
Doc(sha, spath, ekind, fname, path, hay) ==
    [sha |-> sha, source_path |-> spath, ekind |-> ekind, fname |-> fname,
     path |-> path, hay |-> hay, ehay |-> hay]

\* text "For immediate release..."
d_release == Doc("x1", "/foo/bar/press_release_final.pdf", "text",
                 {"release"}, {}, {"for immediate release"})
\* schema {"cols": ["outlet", "email", "reporter"]}
d_media == Doc("x2", "/foo/baz/media.xlsx", "xlsx_schema",
               {}, {}, {"reporter", "outlet", "email"})
\* text "For immediate release\ncontact name\n###\ncontact email"
d_pitch == Doc("x3", "bar/important_pitch.docx", "text",
               {"pitch"}, {},
               {"for immediate release", "###", "contact name",
                "contact email", "email"})
\* text "Team notes for Tuesday."
d_memo == Doc("x4", "/camp/notes/memo.docx", "text", {}, {}, {})
\* one sheet with the columns Outlet, Reporter, Email, Beat
d_medialist == Doc("x5", "/camp/Media_List_Q1.xlsx", "xlsx_schema",
                   {}, {}, {"reporter", "outlet", "beat", "email"})
\* slide 1 "Training" / "Findings and insights"; the sample is empty
d_deck == Doc("x6", "/camp/Q3_Analysis_Deck.pptx", "slides",
              {}, {}, {"analysis"})
\* one sheet with the columns Headline, Link, Status
d_tracker == Doc("x7", "/camp/press_release_tracker.xlsx", "xlsx_schema",
                 {"release"}, {}, {"headline", "link", "status"})
\* text "FOR IMMEDIATE RELEASE\nThe scope of the program is statewide.
\*       Donate today: your gift matters.\n###\nMedia Contact: jane@x.org"
d_appeal == Doc("x8", "/camp/Q3_Press_Release_FINAL.pdf", "text",
                {"release"}, {},
                {"for immediate release", "media contact", "###", "scope",
                 "donate", "your gift"})
\* text "Scope and methodology of the engagement."
d_scope == Doc("x9", "/camp/plan/kickoff.docx", "text",
               {}, {}, {"methodology", "scope"})

\* text "Send to each outlet and reporter on Friday."
d_statement == Doc("x10", "/camp/CEO_statement.docx", "text",
                   {"statement"}, {}, {"reporter", "outlet"})
\* text "News release and press release drafts go to every outlet and
\*       reporter."
d_tie == Doc("x11", "/camp/notes/update.docx", "text", {}, {},
             {"reporter", "outlet", "news release", "press release"})
\* one sheet with the columns Media List, Story Bank, Owner
d_storylist == Doc("x12", "/camp/outreach.xlsx", "xlsx_schema",
                   {}, {}, {"story bank", "media list"})

Corpus == {d_release, d_media, d_pitch, d_memo, d_medialist, d_deck,
           d_tracker, d_appeal, d_scope, d_statement, d_tie, d_storylist}

BatchCorpus == {d_release, d_media, d_deck, d_tracker}

(***************************************************************************)
(* Oracle replies: the dict returned by classify_sample.                   *)
(***************************************************************************)
Reply(dt, c, st) == [doc_type |-> dt, confidence |-> c, doc_subtype |-> st]

OracleLabels == {"press_release", "messaging_one_pager", "newsletter_blurb",
                 "media_list", NoneVal}
OracleConfs == {0 - 200, 500, 654, 920, 1300, NaNF, NoConf}

\* needles in the lower-cased doc_subtype
SubtypeNeedles(st) == IF st = "q&a sheet" THEN {"q&a"} ELSE {}

\* clean_model_json of a text that holds no JSON object: {}
EmptyReply == Reply(NoneVal, NoConf, NoneVal)

Replies ==
    {Reply(dt, c, st) : dt \in OracleLabels, c \in OracleConfs,
                        st \in {"", "q&a sheet"}}
    \cup {EmptyReply}

BatchReplies ==
    {Reply(dt, c, "") : dt \in {"messaging_one_pager", "newsletter_blurb"},
                        c \in {654, 920}}
    \cup {Reply("messaging_one_pager", 920, NonStr)}

(***************************************************************************)
(* coerce_to_allowed                                                       *)
(***************************************************************************)
\* (out.get("doc_subtype") or "")[:160] raises TypeError on a number
coerce_raises(raw) == raw.doc_subtype = NonStr

\* (out.get("doc_subtype") or "")[:160]
subtype_or_empty(st) == IF st = NoneVal THEN "" ELSE st

coerce_to_allowed(raw, allowed) ==
    IF raw.doc_type \notin allowed
    THEN [doc_type |-> UNKNOWN_LABEL,
          confidence |-> Min(Max(to_float(raw.confidence, 400), 0), 600),
          doc_subtype |-> subtype_or_empty(raw.doc_subtype),
          coerced |-> TRUE,
          model_doc_type |-> raw.doc_type,
          locked |-> FALSE,
          adjusted_from |-> NoneVal]
    ELSE [doc_type |-> raw.doc_type,
          confidence |-> Min(Max(to_float(raw.confidence, 500), 0), 1000),
          doc_subtype |-> subtype_or_empty(raw.doc_subtype),
          coerced |-> FALSE,
          model_doc_type |-> raw.doc_type,
          locked |-> FALSE,
          adjusted_from |-> NoneVal]

(***************************************************************************)
(* soft_override: its helpers, then one operator per statement, in the     *)
(* order of the source.                                                    *)
(***************************************************************************)
has(needle, hay) == needle \in hay
has_any(terms, hay) == terms \cap hay # {}

\* " ".join([norm(source_path), norm(doc_subtype), norm(sample), norm(filename)])
Hay(r, d) == d.hay \cup SubtypeNeedles(r.doc_subtype)

\* set_label without its `if result.get("_locked"): return`
set_label_ignores_lock(r, allowed, lbl, conf_floor, lock) ==
    [r EXCEPT !.doc_type = IF lbl \in allowed /\ @ # lbl THEN lbl ELSE @,
              !.confidence = Max(@, conf_floor),
              !.locked = IF lock THEN TRUE ELSE @]

set_label(r, allowed, lbl, conf_floor, lock) ==
    IF r.locked
    THEN r
    ELSE [r EXCEPT !.doc_type = IF lbl \in allowed /\ @ # lbl THEN lbl ELSE @,
                   !.confidence = Max(@, conf_floor),
                   !.locked = IF lock THEN TRUE ELSE @]

release_markers == {"for immediate release", "media contact", "###"}

R_release_markers(r, d, allowed) ==
    IF has_any(release_markers, Hay(r, d))
    THEN set_label(r, allowed, "press_release", 900, TRUE)
    ELSE r

R_release_filename(r, d, allowed) ==
    IF "release" \in d.fname
    THEN set_label(r, allowed, "press_release", 900, TRUE)
    ELSE r

\* the dash variants of the source list are written with "-"
placeholders ==
    {"contact name", "contact email", "contact phone", "[contact",
     "<contact", "xxx", "january xx", "january xx,", "jan xx", "jan xx,",
     " los angeles-xx", " los angeles - xx", " los angeles xx",
     " los angeles, xx", " los angeles,  xx", " xx, 20", " xx 20"}

pitch_conflict(r, d) ==
    /\ "pitch" \in d.fname
    /\ has_any(release_markers, Hay(r, d))
    /\ has_any(placeholders, Hay(r, d))

R_pitch_conflict(r, d, allowed) ==
    IF pitch_conflict(r, d) /\ "pitch_email" \in allowed
    THEN [r EXCEPT !.doc_type = "pitch_email",
                   !.confidence = Min(@, 600),
                   !.locked = TRUE]
    ELSE r

R_media_response(r, d, allowed) ==
    IF /\ ~r.locked
       /\ ~has("talking points", Hay(r, d))
       /\ \/ has_any({"data request response", "data request",
                      "media inquiry", "q&a", "responses below",
                      "as requested"}, Hay(r, d))
          \/ "data request response" \in d.fname
          \/ "fox response" \in d.fname
          \/ "lat data request" \in d.fname
    THEN set_label(r, allowed, "media_response", 910, TRUE)
    ELSE r

R_interview_guide_filename(r, d, allowed) ==
    IF "interview guide" \in d.fname /\ ~r.locked
    THEN IF "interview_guide" \in allowed
         THEN set_label(r, allowed, "interview_guide", 900, TRUE)
         ELSE set_label(r, allowed, "interview_question_bank", 900, TRUE)
    ELSE r

R_media_list_filename(r, d, allowed) ==
    IF d.ekind = "xlsx_schema" /\ "media list" \in d.fname
    THEN set_label(r, allowed, "media_list", 900, TRUE)
    ELSE r

R_statement_filename(r, d, allowed) ==
    IF /\ "statement" \in d.fname
       /\ ~has_any(release_markers, Hay(r, d))
       /\ "press_statement" \in allowed
    THEN set_label(r, allowed, "press_statement", 900, FALSE)
    ELSE r

R_speaking_filename(r, d, allowed) ==
    IF /\ "speaking opportunities" \in d.fname
       /\ d.ekind = "xlsx_schema"
       /\ "speaking_tracker" \in allowed
    THEN set_label(r, allowed, "speaking_tracker", 900, TRUE)
    ELSE r

R_conference_proposal(r, d, allowed) ==
    IF /\ ("conferences" \in d.path \/ "conference" \in d.path)
       /\ has_any({"proposal", "application", "session", "workshop",
                   "learning objectives", "abstract", "cfp"}, Hay(r, d))
    THEN set_label(r, allowed, "conference_proposal", 900, TRUE)
    ELSE r

month_cells ==
    {"\"january\"", "\"february\"", "\"march\"", "\"april\"", "\"may\"",
     "\"june\"", "\"july\"", "\"august\"", "\"september\"", "\"october\"",
     "\"november\"", "\"december\""}

R_editorial_calendar(r, d, allowed) ==
    IF /\ d.ekind = "xlsx_schema"
       /\ \/ has("editorial calendar", Hay(r, d))
          \/ has_any({"\"editorial calendar", "content calendar",
                      "social calendar"}, Hay(r, d))
          \/ has_any(month_cells, Hay(r, d))
    THEN set_label(r, allowed, "editorial_calendar", 900, TRUE)
    ELSE r

R_media_analysis_plan(r, d, allowed) ==
    IF \/ "media analysis plan" \in d.fname
       \/ has_any({"guiding question", "research question", "methodology",
                   "time frame", "limitations", "scope"}, Hay(r, d))
    THEN set_label(r, allowed, "work_plan|strategy_memo", 900, TRUE)
    ELSE r

R_interview_guides(r, d, allowed) ==
    IF has_any({"interview guide", "stakeholder interview",
                "interview objectives", "interview questions"}, Hay(r, d))
    THEN set_label(r, allowed,
                   IF "interview_guide" \in allowed
                   THEN "interview_guide" ELSE "interview_question_bank",
                   900, TRUE)
    ELSE r

R_workback_plan(r, d, allowed) ==
    IF has_any({"work back plan", "workback", "reverse timeline"}, Hay(r, d))
    THEN set_label(r, allowed, "workback_plan", 900, FALSE)
    ELSE r

R_timeline(r, d, allowed) ==
    IF /\ ("timeline" \in d.fname \/ "timeline" \in d.path)
       /\ ~has_any({"stakeholder interview", "interview"}, Hay(r, d))
       /\ "timeline" \in allowed
    THEN set_label(r, allowed, "timeline", 900, FALSE)
    ELSE r

R_speaking_tracker(r, d, allowed) ==
    IF has_any({"speaking opportunities", "call for speakers", "cfp"},
               Hay(r, d))
    THEN IF "speaking_tracker" \in allowed
         THEN set_label(r, allowed, "speaking_tracker", 900, FALSE)
         ELSE IF "competitive_analysis" \in allowed
         THEN set_label(r, allowed, "competitive_analysis", 850, FALSE)
         ELSE IF "media_list" \in allowed
         THEN set_label(r, allowed, "media_list", 850, FALSE)
         ELSE r
    ELSE r

R_donations(r, d, allowed) ==
    IF has_any({"givebutter", "donation page", "donor cta", "donate",
                "your gift", "make a gift"}, Hay(r, d))
    THEN set_label(r, allowed, "platform_copy_edits", 900, FALSE)
    ELSE r

R_pitch_embargo(r, d, allowed) ==
    IF /\ ("pitch" \in d.fname \/ "embargo" \in d.fname)
       /\ ~has_any(release_markers, Hay(r, d))
    THEN set_label(r, allowed, "pitch_email", 920, TRUE)
    ELSE r

R_bio_profile(r, d, allowed) ==
    IF /\ ~r.locked
       /\ has_any({" bio", "biograph", "panelist", "about the speaker",
                   "headshot"}, Hay(r, d))
    THEN set_label(r, allowed, "bio_profile", 900, FALSE)
    ELSE r

R_talking_points(r, d, allowed) ==
    IF has("talking points", Hay(r, d)) /\ r.doc_type = "platform_copy_edits"
    THEN set_label(r, allowed, "talking_points", 900, TRUE)
    ELSE r

\* synonyms_map.get(lab) or []
Get(map, lab) == IF lab \in DOMAIN map THEN map[lab] ELSE {}

\* set(tokens) of one label in the generic vote
vote_tokens(t, lab) ==
    Get(t.synonyms, lab) \cup Get(t.patterns, lab) \cup {LabelPhrase(lab)}

vote_hits(t, lab, hay) == Cardinality(vote_tokens(t, lab) \cap hay)

\* the for-loop over allowed: a later label wins only with strictly more hits
\* the vote with ">=" in place of ">": among tied labels the last one wins
RECURSIVE vote_best_last_wins(_, _, _, _)
vote_best_last_wins(t, hay, i, best) ==
    IF i > Len(t.labels)
    THEN best
    ELSE LET hits == vote_hits(t, t.labels[i], hay)
         IN  vote_best_last_wins(t, hay, i + 1,
                                 IF hits >= best.hits
                                 THEN [hits |-> hits, label |-> t.labels[i]]
                                 ELSE best)

RECURSIVE vote_best(_, _, _, _)
vote_best(t, hay, i, best) ==
    IF i > Len(t.labels)
    THEN best
    ELSE LET hits == vote_hits(t, t.labels[i], hay)
         IN  vote_best(t, hay, i + 1,
                       IF hits > best.hits
                       THEN [hits |-> hits, label |-> t.labels[i]]
                       ELSE best)

generic == {"press_statement", "messaging_one_pager"}

\* the generic vote without its gate on the confidence and the generic
\* bucket
generic_vote_ungated(r, d, t) ==
    IF r.locked
    THEN r
    ELSE LET best == vote_best(t, Hay(r, d), 1,
                               [hits |-> 0, label |-> r.doc_type])
         IN  IF /\ best.hits >= 2
                /\ best.label \in SeqToSet(t.labels)
                /\ best.label # r.doc_type
             THEN [r EXCEPT !.doc_type = best.label,
                            !.confidence = Max(@, 880)]
             ELSE r

generic_vote(r, d, t) ==
    IF r.locked
    THEN r
    ELSE LET best == vote_best(t, Hay(r, d), 1,
                               [hits |-> 0, label |-> r.doc_type])
         IN  IF /\ best.hits >= 2
                /\ (r.confidence < 850 \/ r.doc_type \in generic)
                /\ best.label \in SeqToSet(t.labels)
                /\ best.label # r.doc_type
             THEN [r EXCEPT !.doc_type = best.label,
                            !.confidence = Max(@, 880)]
             ELSE r

\* result.pop("_locked", None)
pop_locked(r) == [r EXCEPT !.locked = FALSE]

NStages == 21
PitchStage == 3
VoteStage == 20

\* the k-th statement of soft_override
Stage(k, r, d, t) ==
    LET allowed == SeqToSet(t.labels) IN
    CASE k = 1 -> R_release_markers(r, d, allowed)
      [] k = 2 -> R_release_filename(r, d, allowed)
      [] k = 3 -> R_pitch_conflict(r, d, allowed)
      [] k = 4 -> R_media_response(r, d, allowed)
      [] k = 5 -> R_interview_guide_filename(r, d, allowed)
      [] k = 6 -> R_media_list_filename(r, d, allowed)
      [] k = 7 -> R_statement_filename(r, d, allowed)
      [] k = 8 -> R_speaking_filename(r, d, allowed)
      [] k = 9 -> R_conference_proposal(r, d, allowed)
      [] k = 10 -> R_editorial_calendar(r, d, allowed)
      [] k = 11 -> R_media_analysis_plan(r, d, allowed)
      [] k = 12 -> R_interview_guides(r, d, allowed)
      [] k = 13 -> R_workback_plan(r, d, allowed)
      [] k = 14 -> R_timeline(r, d, allowed)
      [] k = 15 -> R_speaking_tracker(r, d, allowed)
      [] k = 16 -> R_donations(r, d, allowed)
      [] k = 17 -> R_pitch_embargo(r, d, allowed)
      [] k = 18 -> R_bio_profile(r, d, allowed)
      [] k = 19 -> R_talking_points(r, d, allowed)
      [] k = 20 -> generic_vote(r, d, t)
      [] k = 21 -> pop_locked(r)

RECURSIVE run_stages(_, _, _, _)
run_stages(k, r, d, t) ==
    IF k > NStages THEN r ELSE run_stages(k + 1, Stage(k, r, d, t), d, t)

soft_override(r, d, t) == run_stages(1, r, d, t)

(***************************************************************************)
(* enforce_extract_constraints                                             *)
(***************************************************************************)
XlsxLabels == {"editorial_calendar", "media_list", "coverage_tracker",
               "story_bank", "speaking_tracker", "competitive_analysis"}
SlidesLabels == {"deck|training_materials", "deck|analysis_report"}

\* ALLOWED_BY_EXTRACT.get(extract_type); {} stands for None (no restriction)
ALLOWED_BY_EXTRACT(ekind) ==
    CASE ekind = "xlsx_schema" -> XlsxLabels
      [] ekind = "slides" -> SlidesLabels
      [] OTHER -> {}

guess_xlsx(hay, fname) ==
    IF "story bank" \in hay \/ "story bank" \in fname
    THEN "story_bank"
    ELSE IF has_any({"peer org", "peer organizations", "competitive",
                     "competitor", "benchmark", "matrix", "rubric",
                     "criteria"}, hay)
    THEN "competitive_analysis"
    ELSE IF "media list" \in hay \/ "media list" \in fname
    THEN "media_list"
    ELSE IF "calendar" \in hay
    THEN "editorial_calendar"
    ELSE IF has_any({"reporter", "outlet", "beat", "email"}, hay)
    THEN "media_list"
    ELSE IF has_any({"coverage", "headline", "link", "status", "published",
                     "url", "earned media"}, hay)
    THEN "coverage_tracker"
    ELSE IF has_any({"speaking", "cfp", "call for speakers"}, hay)
    THEN "speaking_tracker"
    ELSE "media_list"

guess_slides(hay) ==
    IF has_any({"analysis", "findings", "insights", "kpi"}, hay)
    THEN "deck|analysis_report"
    ELSE "deck|training_materials"

\* enforce_extract_constraints leaving every label alone
enforce_nothing(r, ekind, hay, fname) == r

enforce_extract_constraints(r, ekind, hay, fname) ==
    LET allowed == ALLOWED_BY_EXTRACT(ekind)
        guess == IF ekind = "xlsx_schema"
                 THEN guess_xlsx(hay, fname) ELSE guess_slides(hay)
    IN  IF allowed = {} \/ r.doc_type \in allowed
        THEN r
        ELSE IF guess \in allowed
        THEN [r EXCEPT !.adjusted_from = r.doc_type,
                       !.doc_type = guess,
                       !.confidence = Min(@, 850)]
        ELSE r

\* main(): " ".join([spath, str(data.get("doc_subtype", "")), sample]).lower()
EnforceHay(r, d) == d.ehay \cup SubtypeNeedles(r.doc_subtype)

(***************************************************************************)
(* Files.  DataFrame.to_csv writes NaN as an empty cell; read_csv with     *)
(* dtype=str reads an empty cell as NaN and every other cell as its text.  *)
(***************************************************************************)
NoFile == [exists |-> FALSE, rows |-> <<>>]

WriteCell(v) == IF v = NaN THEN "" ELSE v
ReadCell(v) == IF v = "" THEN NaN ELSE v

to_csv(rs) ==
    [exists |-> TRUE,
     rows |-> [i \in DOMAIN rs |->
                 [rs[i] EXCEPT !.doc_subtype = WriteCell(@)]]]

read_csv(file) ==
    [i \in DOMAIN file.rows |->
        [file.rows[i] EXCEPT !.doc_subtype = ReadCell(@)]]

(***************************************************************************)
(* main(): the batch runner.                                               *)
(***************************************************************************)
Unbound == [unbound |-> TRUE]
IsBound(x) == "doc_type" \in DOMAIN x

\* raw_data of the except branch: {"evidence": [], "_error": str(e)}
ErrorRaw(e) == [error |-> e]
Failed(raw) == "error" \in DOMAIN raw

CurDoc == extracted[idx]

LedgerRow(d, dt, st, c) ==
    [source_path |-> d.source_path, sha256 |-> d.sha, doc_type |-> dt,
     doc_subtype |-> st, clf_confidence |-> Round2(c),
     extract_type |-> d.ekind]

Locals0 ==
    /\ idx = 0
    /\ seen_shas = {}
    /\ rows = <<>>
    /\ triage_rows = <<>>
    /\ newly_processed = 0
    /\ attempt = 0
    /\ sleeps = <<>>
    /\ raw_data = Unbound
    /\ data = Unbound
    /\ doc_type = NoneVal
    /\ doc_subtype = NoneVal
    /\ conf = 0
    /\ triage_reasons = {}

\* injective sequences over S of length at most n
DistinctSeqs(S, n) ==
    {s \in UNION {[1..k -> S] : k \in 0..n} :
        \A i, j \in DOMAIN s : i # j => s[i] # s[j]}

\* no line has been written to extracted.jsonl
NoLine == [type |-> NoneVal]

\* no record is being sampled: the batch model carries the sample of a
\* document as the needles found in it
SampleIdle ==
    /\ extract_obj = NoneVal
    /\ max_chars = SAMPLE_CHARS
    /\ sample = NoneVal
    /\ jsonl = NoLine

Init ==
    /\ api_key \in BOOLEAN
    /\ tax \in Taxonomies
    /\ extracted \in DistinctSeqs(BatchCorpus, MaxDocs)
    /\ ledger = NoFile
    /\ triage_file = NoFile
    /\ pc = "idle"
    /\ Locals0
    /\ rc = NoneVal
    /\ stage = 0
    /\ was_locked = FALSE
    /\ SampleIdle

\* the resume block reading a column the ledger does not have
prev_shas_wrong_column(file) == {}

\* set(df_prev["sha256"].astype(str).tolist())
prev_shas(file) == {file.rows[i].sha256 : i \in DOMAIN file.rows}

Stopped == pc \in {"idle", "done", "crashed", "killed", "exit1"}

\* if not os.getenv("OPENAI_API_KEY"): sys.exit(1)
ExitNoKey ==
    /\ Stopped
    /\ ~api_key
    /\ pc' = "exit1"
    /\ UNCHANGED <<svars, api_key, tax, extracted, ledger, triage_file, idx,
                   seen_shas, rows, triage_rows, newly_processed, attempt,
                   sleeps, raw_data, data, doc_type, doc_subtype, conf,
                   triage_reasons, rc, stage, was_locked>>

\* main() up to the loop: resume from classified.csv
StartRun ==
    /\ Stopped
    /\ api_key
    /\ pc' = "loop"
    /\ idx' = 1
    /\ rows' = IF ledger.exists THEN read_csv(ledger) ELSE <<>>
    /\ seen_shas' = IF ledger.exists THEN prev_shas(ledger) ELSE {}
    /\ triage_rows' = <<>>
    /\ newly_processed' = 0
    /\ attempt' = 0
    /\ sleeps' = <<>>
    /\ raw_data' = Unbound
    /\ data' = Unbound
    /\ doc_type' = NoneVal
    /\ doc_subtype' = NoneVal
    /\ conf' = 0
    /\ triage_reasons' = {}
    /\ rc' = NoneVal
    /\ UNCHANGED <<svars, api_key, tax, extracted, ledger, triage_file, stage, was_locked>>

\* if sha and sha in seen_shas: continue
SkipDoc ==
    /\ pc = "loop"
    /\ idx <= Len(extracted)
    /\ CurDoc.sha # "" /\ CurDoc.sha \in seen_shas
    /\ idx' = idx + 1
    /\ UNCHANGED <<svars, api_key, tax, extracted, ledger, triage_file, pc, seen_shas, rows,
                   triage_rows, newly_processed, attempt, sleeps, raw_data, data,
                   doc_type, doc_subtype, conf, triage_reasons, rc, stage,
                   was_locked>>

\* build_sample, then enter classify_sample
BeginDoc ==
    /\ pc = "loop"
    /\ idx <= Len(extracted)
    /\ ~(CurDoc.sha # "" /\ CurDoc.sha \in seen_shas)
    /\ pc' = "classify"
    /\ attempt' = 1
    /\ sleeps' = <<>>
    /\ UNCHANGED <<svars, api_key, tax, extracted, ledger, triage_file, idx, seen_shas, rows,
                   triage_rows, newly_processed, raw_data, data, doc_type,
                   doc_subtype, conf, triage_reasons, rc, stage, was_locked>>

\* the except branch of main(), entered with the exception e
ExceptBranch(e) ==
    /\ doc_type' = UNKNOWN_LABEL
    /\ doc_subtype' = "unknown"
    /\ conf' = 300
    /\ raw_data' = ErrorRaw(e)
    /\ pc' = "append"

\* one attempt of classify_sample returns a dict
AttemptReturns ==
    /\ pc = "classify"
    /\ \E reply \in BatchReplies : raw_data' = reply
    /\ pc' = "coerce"
    /\ UNCHANGED <<svars, api_key, tax, extracted, ledger, triage_file, idx, seen_shas, rows,
                   triage_rows, newly_processed, attempt, sleeps, data, doc_type,
                   doc_subtype, conf, triage_reasons, rc, stage, was_locked>>

\* time.sleep(RETRY_BASE_SEC * (2 ** (attempt - 1)))
backoff(n) == RETRY_BASE_SEC * 2 ^ (n - 1)

\* one attempt raises: sleep and retry, or re-raise after the last one
AttemptFails ==
    /\ pc = "classify"
    /\ IF attempt = MAX_RETRIES
       THEN /\ ExceptBranch("oracle error")
            /\ UNCHANGED <<attempt, sleeps>>
       ELSE /\ sleeps' = Append(sleeps, backoff(attempt))
            /\ attempt' = attempt + 1
            /\ UNCHANGED <<pc, raw_data, doc_type, doc_subtype, conf>>
    /\ UNCHANGED <<svars, api_key, tax, extracted, ledger, triage_file, idx, seen_shas, rows,
                   triage_rows, newly_processed, data, triage_reasons, rc,
                   stage, was_locked>>

\* KeyboardInterrupt or a kill during the oracle call: not an Exception,
\* so it leaves main() without any write
Interrupt ==
    /\ pc = "classify"
    /\ pc' = "killed"
    /\ UNCHANGED <<svars, api_key, tax, extracted, ledger, triage_file, idx, seen_shas, rows,
                   triage_rows, newly_processed, attempt, sleeps, raw_data, data,
                   doc_type, doc_subtype, conf, triage_reasons, rc, stage,
                   was_locked>>

\* data = coerce_to_allowed(raw_data, labels, ...)
Coerce ==
    /\ pc = "coerce"
    /\ IF coerce_raises(raw_data)
       THEN /\ ExceptBranch("TypeError")
            /\ UNCHANGED data
       ELSE /\ data' = coerce_to_allowed(raw_data, SeqToSet(tax.labels))
            /\ pc' = "override"
            /\ UNCHANGED <<raw_data, doc_type, doc_subtype, conf>>
    /\ UNCHANGED <<svars, api_key, tax, extracted, ledger, triage_file, idx, seen_shas, rows,
                   triage_rows, newly_processed, attempt, sleeps, triage_reasons, rc,
                   stage, was_locked>>

\* data = soft_override(data, ...)
Override ==
    /\ pc = "override"
    /\ data' = soft_override(data, CurDoc, tax)
    /\ pc' = "enforce"
    /\ UNCHANGED <<svars, api_key, tax, extracted, ledger, triage_file, idx, seen_shas, rows,
                   triage_rows, newly_processed, attempt, sleeps, raw_data, doc_type,
                   doc_subtype, conf, triage_reasons, rc, stage, was_locked>>

\* data = enforce_extract_constraints(...); doc_type, doc_subtype, conf
Enforce ==
    /\ pc = "enforce"
    /\ data' = enforce_extract_constraints(data, CurDoc.ekind,
                                           EnforceHay(data, CurDoc),
                                           CurDoc.fname)
    /\ doc_type' = data'.doc_type
    /\ doc_subtype' = data'.doc_subtype
    /\ conf' = data'.confidence
    /\ pc' = "append"
    /\ UNCHANGED <<svars, api_key, tax, extracted, ledger, triage_file, idx, seen_shas, rows,
                   triage_rows, newly_processed, attempt, sleeps, raw_data,
                   triage_reasons, rc, stage, was_locked>>

\* rows.append({...})
AppendRow ==
    /\ pc = "append"
    /\ rows' = Append(rows, LedgerRow(CurDoc, doc_type, doc_subtype, conf))
    /\ pc' = "triage"
    /\ UNCHANGED <<svars, api_key, tax, extracted, ledger, triage_file, idx, seen_shas,
                   triage_rows, newly_processed, attempt, sleeps, raw_data, data,
                   doc_type, doc_subtype, conf, triage_reasons, rc, stage,
                   was_locked>>

\* the reason codes, read from whatever `data` is bound to
reasons_of(dat, c) ==
    (IF dat.coerced THEN {"suggested_label_not_in_taxonomy"} ELSE {})
    \cup (IF c <= LOW_CONF_THRESHOLD THEN {"low_confidence"} ELSE {})
    \cup (IF dat.adjusted_from # NoneVal
          THEN {"extract_constraint_adjustment"} ELSE {})

TriageRow(d, dat, dt, c, reasons) ==
    [source_path |-> d.source_path, sha256 |-> d.sha,
     extract_type |-> d.ekind, final_doc_type |-> dt,
     model_doc_type |-> dat.model_doc_type, clf_confidence |-> Round2(c),
     triage_reasons |-> reasons]

\* the triage block; `data` is read outside the try, so a failure of the
\* first processed document raises NameError and main() ends with it
Triage ==
    /\ pc = "triage"
    /\ IF IsBound(data)
       THEN /\ triage_reasons' = reasons_of(data, conf)
            /\ triage_rows' =
                 IF triage_reasons' # {}
                 THEN Append(triage_rows,
                             TriageRow(CurDoc, data, doc_type, conf,
                                       triage_reasons'))
                 ELSE triage_rows
            /\ newly_processed' = newly_processed + 1
            /\ idx' = idx + 1
            /\ pc' = "loop"
       ELSE /\ triage_reasons' = {}
            /\ pc' = "crashed"
            /\ UNCHANGED <<triage_rows, newly_processed, idx>>
    /\ UNCHANGED <<svars, api_key, tax, extracted, ledger, triage_file, seen_shas, rows,
                   attempt, sleeps, raw_data, data, doc_type, doc_subtype, conf, rc,
                   stage, was_locked>>

\* after the loop: df.to_csv(out); the triage file only when there are rows
WriteOutputs ==
    /\ pc = "loop"
    /\ idx > Len(extracted)
    /\ ledger' = to_csv(rows)
    /\ triage_file' = IF triage_rows # <<>>
                      THEN [exists |-> TRUE, rows |-> triage_rows]
                      ELSE triage_file
    /\ pc' = "done"
    /\ UNCHANGED <<svars, api_key, tax, extracted, idx, seen_shas, rows, triage_rows,
                   newly_processed, attempt, sleeps, raw_data, data, doc_type,
                   doc_subtype, conf, triage_reasons, rc, stage, was_locked>>

(***************************************************************************)
(* reclassify_campaign.  `python -m pipeline.classify_llm <camp>` executes *)
(* the module body only: the `if __name__ == "__main__":` block is         *)
(* indented into main(), so nothing calls main() and the process exits 0.  *)
(***************************************************************************)
ScriptCallsMain == FALSE

ReclassifyCampaign ==
    /\ Stopped
    /\ ~ScriptCallsMain
    /\ ledger' = NoFile
    /\ rc' = "0"
    /\ pc' = "idle"
    /\ idx' = 0
    /\ seen_shas' = {}
    /\ rows' = <<>>
    /\ triage_rows' = <<>>
    /\ newly_processed' = 0
    /\ attempt' = 0
    /\ sleeps' = <<>>
    /\ raw_data' = Unbound
    /\ data' = Unbound
    /\ doc_type' = NoneVal
    /\ doc_subtype' = NoneVal
    /\ conf' = 0
    /\ triage_reasons' = {}
    /\ UNCHANGED <<svars, api_key, tax, extracted, triage_file, stage, was_locked>>

Next ==
    \/ ExitNoKey
    \/ StartRun
    \/ SkipDoc
    \/ BeginDoc
    \/ AttemptReturns
    \/ AttemptFails
    \/ Interrupt
    \/ Coerce
    \/ Override
    \/ Enforce
    \/ AppendRow
    \/ Triage
    \/ WriteOutputs
    \/ ReclassifyCampaign

Spec == Init /\ [][Next]_vars

(***************************************************************************)
(* The document set grows between runs: a file is added to the inventory   *)
(* and extract.main() writes extracted.jsonl again, one record per         *)
(* inventory row.  The runs of main() are the non-forced ones: nothing     *)
(* removes classified.csv.                                                 *)
(***************************************************************************)
ExtractMain ==
    /\ Stopped
    /\ Len(extracted) < MaxDocs
    /\ \E d \in BatchCorpus \ SeqToSet(extracted) :
           extracted' = Append(extracted, d)
    /\ UNCHANGED <<svars, api_key, tax, ledger, triage_file, pc, idx, seen_shas,
                   rows, triage_rows, newly_processed, attempt, sleeps,
                   raw_data, data, doc_type, doc_subtype, conf,
                   triage_reasons, rc, stage, was_locked>>

NextGrow ==
    \/ ExitNoKey
    \/ StartRun
    \/ SkipDoc
    \/ BeginDoc
    \/ AttemptReturns
    \/ AttemptFails
    \/ Interrupt
    \/ Coerce
    \/ Override
    \/ Enforce
    \/ AppendRow
    \/ Triage
    \/ WriteOutputs
    \/ ExtractMain

SpecGrow == Init /\ [][NextGrow]_vars


(***************************************************************************)
(* build_sample.  A string is the sequence of its characters' code points; *)
(* the characters of document text are numbered from 1001 on, so that a    *)
(* text is known by its length and every position of it is recognisable.   *)
(***************************************************************************)
\* s[:n] for n >= 0
Take(s, n) == SubSeq(s, 1, IF n < Len(s) THEN n ELSE Len(s))

\* s[-n:] for n > 0
LastChars(s, n) == IF n < Len(s) THEN SubSeq(s, Len(s) - n + 1, Len(s)) ELSE s

\* "\n...\n"
joiner == <<10, 46, 46, 46, 10>>

\* The double 0.7 is Sig07 / 2^53 with Sig07 = 6305039478318694, here in
\* three limbs of 18 bits: Sig07 = (Sig07_2 * 2^18 + Sig07_1) * 2^18 + Sig07_0
Limb == 262144
Sig07_0 == 157286
Sig07_1 == 104857
Sig07_2 == 91750

RECURSIVE bit_length(_)
bit_length(x) == IF x = 0 THEN 0 ELSE 1 + bit_length(x \div 2)

RECURSIVE pow2(_)
pow2(n) == IF n = 0 THEN 1 ELSE 2 * pow2(n - 1)

\* 0.7 * max_chars as a real number, rounded down
floor_times_07(m) == (7 * m) \div 10

\* int(max_chars * 0.7): the exact product m * Sig07 is rounded to the 53
\* significant bits of a double (to nearest, ties to even) and the result,
\* divided by 2^53, is truncated.  For 0 <= m < 8192.
int_times_07(m) ==
    IF m = 0 THEN 0
    ELSE LET a0 == m * Sig07_0
             a1 == m * Sig07_1 + a0 \div Limb
             p0 == a0 % Limb
             p1 == a1 % Limb
             p2 == m * Sig07_2 + a1 \div Limb
             r == bit_length(p2) - 17
             low == p0 % pow2(r)
             up == /\ r > 0
                   /\ \/ 2 * low > pow2(r)
                      \/ 2 * low = pow2(r) /\ (p0 \div pow2(r)) % 2 = 1
             q0 == p0 - low + (IF up THEN pow2(r) ELSE 0)
             q1 == p1 + q0 \div Limb
             q2 == p2 + q1 \div Limb
         IN  q2 \div pow2(17)

\* the branch extract_type == "text"
build_text(t, mc) ==
    IF Len(t) <= mc
    THEN t
    ELSE LET budget == mc - int_times_07(mc) - Len(joiner)
             head_budget == IF budget < 0 THEN mc ELSE int_times_07(mc)
             tail_budget == IF budget < 0 THEN 0 ELSE budget
             join == IF budget < 0 THEN <<>> ELSE joiner
             head == Take(t, head_budget)
             tail == IF tail_budget > 0 THEN LastChars(t, tail_budget)
                     ELSE <<>>
         IN  head \o join \o tail

\* a key of a dict: the int i, or the str of i that json.dumps writes for it
IntKey(i) == <<"int", i>>
StrKey(i) == <<"str", i>>

NoSlide == [title |-> <<>>, body |-> <<>>]

\* slides.get(k, {}) followed by .get("title", "") and .get("body", "")
GetSlide(slides, k) == IF k \in DOMAIN slides THEN slides[k] ELSE NoSlide

\* f"[Slide {i}] {title}\n{body}" for i in 1..9
slide_record(i, si) ==
    <<91, 83, 108, 105, 100, 101, 32, 48 + i, 93, 32>>
        \o si.title \o <<10>> \o si.body

\* parts, for the keys the loop `for i in (1, 2, 3)` looks up, from i on
RECURSIVE slide_parts(_, _)
slide_parts(slides, i) ==
    IF i > 3
    THEN <<>>
    ELSE LET si == GetSlide(slides, IntKey(i))
         IN  (IF si.title = <<>> /\ si.body = <<>>
              THEN <<>>
              ELSE <<slide_record(i, si)>>) \o slide_parts(slides, i + 1)

\* "\n\n".join(parts)
RECURSIVE join_parts(_)
join_parts(parts) ==
    IF parts = <<>> THEN <<>>
    ELSE IF Len(parts) = 1 THEN parts[1]
    ELSE parts[1] \o <<10, 10>> \o join_parts(Tail(parts))

build_sample(extract_type, obj, mc) ==
    CASE extract_type = "text" -> build_text(obj.text, mc)
      [] extract_type = "slides" ->
            Take(join_parts(slide_parts(obj.slides, 1)), mc)
      [] extract_type = "xlsx_schema" -> Take(obj.schema, mc)
      [] OTHER -> <<>>

\* json.dumps of an extract object, read as the value json.loads gives
\* back: the int keys of the slides dict have become strings
json_dumps(obj) ==
    IF obj.type = "slides"
    THEN [obj EXCEPT !.slides =
            [k \in {StrKey(j[2]) : j \in DOMAIN obj.slides} |->
                obj.slides[IntKey(k[2])]]]
    ELSE obj

json_loads(line) == line

\* slide i of a deck as read_pptx stores it: without text, with a title,
\* or with a title and a body
SlideKinds == {"empty", "title", "both"}

SlideOf(i, kind) ==
    [title |-> IF kind = "empty" THEN <<>> ELSE <<1000 + 10 * i>>,
     body |-> IF kind = "both"
              THEN <<1001 + 10 * i, 1002 + 10 * i>> ELSE <<>>]

\* read_pptx: slides[i] = {...} for i = 1, 2, ...
SlidesObjects ==
    {[type |-> "slides",
      slides |-> [k \in {IntKey(i) : i \in 1..n} |-> SlideOf(k[2], c[k[2]])]] :
        n \in 0..MaxSlides, c \in [1..MaxSlides -> SlideKinds]}

\* the texts of 0 to MaxText characters
TextObjects ==
    {[type |-> "text", text |-> [i \in 1..n |-> 1000 + i]] : n \in 0..MaxText}

\* json.dumps({"Sheet1": ["A"]}) and the record of an unsupported suffix
OtherObjects ==
    {[type |-> "xlsx_schema",
      schema |-> <<123, 34, 83, 34, 58, 32, 91, 34, 65, 34, 93, 125>>],
     [type |-> "skip"]}

InitSample ==
    /\ api_key = TRUE
    /\ tax = TaxMissing
    /\ extracted = <<>>
    /\ ledger = NoFile
    /\ triage_file = NoFile
    /\ pc = "sample_start"
    /\ Locals0
    /\ rc = NoneVal
    /\ stage = 0
    /\ was_locked = FALSE
    /\ extract_obj \in TextObjects \cup SlidesObjects \cup OtherObjects
    /\ max_chars \in 0..MaxChars
    /\ sample = NoneVal
    /\ jsonl = NoLine

SampleFrame ==
    UNCHANGED <<api_key, tax, extracted, ledger, triage_file, idx, seen_shas,
                rows, triage_rows, newly_processed, attempt, sleeps,
                raw_data, data, doc_type, doc_subtype, conf, triage_reasons,
                rc, stage, was_locked, max_chars>>

\* extract.main(): f.write(json.dumps(rec) + "\n")
ExtractWrites ==
    /\ pc = "sample_start"
    /\ jsonl' = json_dumps(extract_obj)
    /\ pc' = "sample_written"
    /\ UNCHANGED <<extract_obj, sample>>
    /\ SampleFrame

\* main(): r = json.loads(line)
MainReads ==
    /\ pc = "sample_written"
    /\ extract_obj' = json_loads(jsonl)
    /\ pc' = "sample_read"
    /\ UNCHANGED <<jsonl, sample>>
    /\ SampleFrame

\* build_sample(ekind, extract, max_chars), called by main() on the record
\* it read, or on a dict in memory as the unit test does
BuildSample ==
    /\ pc \in {"sample_start", "sample_read"}
    /\ sample' = build_sample(extract_obj.type, extract_obj, max_chars)
    /\ pc' = "sample_built"
    /\ UNCHANGED <<extract_obj, jsonl>>
    /\ SampleFrame

NextSample ==
    \/ ExtractWrites
    \/ MainReads
    \/ BuildSample

SpecSample == InitSample /\ [][NextSample]_vars

(***************************************************************************)
(* The pipeline of one document (the try block of main(), the row and the  *)
(* triage block), with soft_override run one statement at a time.          *)
(***************************************************************************)
InitDoc ==
    /\ api_key = TRUE
    /\ tax \in DocTaxonomies
    /\ \E d \in Corpus : extracted = <<d>>
    /\ ledger = NoFile
    /\ triage_file = NoFile
    /\ pc = "doc_coerce"
    /\ idx = 1
    /\ seen_shas = {}
    /\ rows = <<>>
    /\ triage_rows = <<>>
    /\ newly_processed = 0
    /\ attempt = 1
    /\ sleeps = <<>>
    /\ raw_data \in Replies
    /\ data = Unbound
    /\ doc_type = NoneVal
    /\ doc_subtype = NoneVal
    /\ conf = 0
    /\ triage_reasons = {}
    /\ rc = NoneVal
    /\ stage = 0
    /\ was_locked = FALSE
    /\ SampleIdle

DocFrame ==
    UNCHANGED <<svars, api_key, tax, extracted, ledger, triage_file, idx, seen_shas, rows,
                triage_rows, newly_processed, attempt, sleeps, raw_data,
                triage_reasons, rc>>

DocCoerce ==
    /\ pc = "doc_coerce"
    /\ data' = coerce_to_allowed(raw_data, SeqToSet(tax.labels))
    /\ pc' = "doc_rules"
    /\ UNCHANGED <<doc_type, doc_subtype, conf, stage, was_locked>>
    /\ DocFrame

\* the next statement of soft_override
DocRule ==
    /\ pc = "doc_rules"
    /\ stage < NStages
    /\ data' = Stage(stage + 1, data, CurDoc, tax)
    /\ stage' = stage + 1
    /\ was_locked' = (was_locked \/ data'.locked)
    /\ pc' = IF stage' = NStages THEN "doc_enforce" ELSE "doc_rules"
    /\ UNCHANGED <<doc_type, doc_subtype, conf>>
    /\ DocFrame

DocEnforce ==
    /\ pc = "doc_enforce"
    /\ data' = enforce_extract_constraints(data, CurDoc.ekind,
                                           EnforceHay(data, CurDoc),
                                           CurDoc.fname)
    /\ doc_type' = data'.doc_type
    /\ doc_subtype' = data'.doc_subtype
    /\ conf' = data'.confidence
    /\ pc' = "doc_append"
    /\ UNCHANGED <<stage, was_locked>>
    /\ DocFrame

\* rows.append({...})
DocAppend ==
    /\ pc = "doc_append"
    /\ rows' = Append(rows, LedgerRow(CurDoc, doc_type, doc_subtype, conf))
    /\ pc' = "doc_triage"
    /\ UNCHANGED <<svars, api_key, tax, extracted, ledger, triage_file, idx,
                   seen_shas, triage_rows, newly_processed, attempt, sleeps,
                   raw_data, data, doc_type, doc_subtype, conf,
                   triage_reasons, rc, stage, was_locked>>

\* the triage block, for a document whose try block completed
DocTriage ==
    /\ pc = "doc_triage"
    /\ triage_reasons' = reasons_of(data, conf)
    /\ triage_rows' =
         IF triage_reasons' # {}
         THEN Append(triage_rows,
                     TriageRow(CurDoc, data, doc_type, conf, triage_reasons'))
         ELSE triage_rows
    /\ newly_processed' = newly_processed + 1
    /\ pc' = "doc_done"
    /\ UNCHANGED <<svars, api_key, tax, extracted, ledger, triage_file, idx,
                   seen_shas, rows, attempt, sleeps, raw_data, data,
                   doc_type, doc_subtype, conf, rc, stage, was_locked>>

NextDoc ==
    \/ DocCoerce
    \/ DocRule
    \/ DocEnforce
    \/ DocAppend
    \/ DocTriage

SpecDoc == InitDoc /\ [][NextDoc]_vars

(***************************************************************************)
(* Properties.                                                             *)
(***************************************************************************)
Labels == SeqToSet(tax.labels)
LastRow == rows[Len(rows)]

\* the row of the except branch of main()
FailureRow(row) ==
    /\ row.doc_type = UNKNOWN_LABEL
    /\ row.doc_subtype = "unknown"
    /\ row.clf_confidence = 30

Conforms(row) ==
    /\ row.extract_type = "xlsx_schema" => row.doc_type \in XlsxLabels
    /\ row.extract_type = "slides" => row.doc_type \in SlidesLabels

\* C1: every doc_type main() puts in the ledger is a label of the taxonomy
\* or UNKNOWN_LABEL.
C1_DocTypeInTaxonomy ==
    \A i \in DOMAIN rows : rows[i].doc_type \in Labels \cup {UNKNOWN_LABEL}

\* C2 (as claimed): once _locked has been set for a document, no later
\* statement of soft_override and no later stage changes its doc_type.
C2_LockMonotonicity ==
    [][was_locked => data'.doc_type = data.doc_type]_vars

\* C2 (amended): once _locked has been set, doc_type is changed only by the
\* pitch conflict rule, when its condition holds, or by
\* enforce_extract_constraints, when the label is outside the subset of the
\* document's extract type; the rules that go through set_label and the
\* generic vote leave it alone.
C2_LockedChangedOnlyByPitchOrEnforce ==
    [][(was_locked /\ data'.doc_type # data.doc_type)
        => \/ /\ pc = "doc_rules"
              /\ stage' = PitchStage
              /\ pitch_conflict(data, CurDoc)
           \/ /\ pc = "doc_enforce"
              /\ ALLOWED_BY_EXTRACT(CurDoc.ekind) # {}
              /\ data.doc_type \notin ALLOWED_BY_EXTRACT(CurDoc.ekind)]_vars

\* C2 witness: the release markers locked press_release, and the later
\* rule for "scope" (work_plan|strategy_memo, a label of the taxonomy) and
\* the generic vote have run without changing it.
C2_Witness ==
    /\ pc = "doc_enforce"
    /\ was_locked
    /\ "scope" \in Hay(data, CurDoc)
    /\ "work_plan|strategy_memo" \in Labels
    /\ data.doc_type = "press_release"

\* C3: a document whose oracle label was coerced has a ledger confidence of
\* at most 0.6.
C3_CoercedConfidenceCap ==
    (pc = "triage" /\ ~Failed(raw_data) /\ data.coerced)
        => LastRow.clf_confidence <= 60

\* C4: a failing document gets exactly one UNKNOWN_LABEL row, main() goes
\* on and ends with a ledger of exactly one row per input document.
C4_FailureIsolation ==
    /\ pc # "crashed"
    /\ (pc = "triage" /\ Failed(raw_data))
          => (LastRow.sha256 = CurDoc.sha /\ LastRow.doc_type = UNKNOWN_LABEL)
    /\ pc = "done"
          => \A k \in DOMAIN extracted :
                Cardinality({i \in DOMAIN ledger.rows :
                    ledger.rows[i].sha256 = extracted[k].sha}) = 1

\* C5: the row of each completed document is in the ledger file before the
\* next document is processed, so an abnormal stop loses no completed row.
C5_IncrementalPersistence ==
    (pc \in {"loop", "killed"} /\ newly_processed > 0)
        => /\ ledger.exists
           /\ \A i \in DOMAIN rows :
                 to_csv(rows).rows[i] \in SeqToSet(ledger.rows)

\* C6: a hash is skipped by a run only if its document's pipeline completed
\* without an exception; a document that ended on the failure path is
\* classified again.
C6_OnlySuccessfulHashesSkipped ==
    \A i \in DOMAIN rows :
        rows[i].sha256 \in seen_shas => ~FailureRow(rows[i])

C8_ForcedReclassification ==
    rc = "0"
        => /\ ledger.exists
           /\ \A k \in DOMAIN extracted :
                 \E i \in DOMAIN ledger.rows :
                    ledger.rows[i].sha256 = extracted[k].sha

\* C9 (as claimed): every xlsx_schema row has a spreadsheet label and every
\* slides row a deck label, on every path through main().
C9_ExtractKindConformance ==
    \A i \in DOMAIN rows : Conforms(rows[i])

\* C9 (amended): every row main() writes for an xlsx_schema or slides
\* document whose pipeline raised no exception has a label of the subset of
\* its extract type; the row of a document that failed is the UNKNOWN_LABEL
\* row of the except branch.
C9_ConformanceUnlessFailed ==
    /\ \A i \in DOMAIN rows : Conforms(rows[i]) \/ FailureRow(rows[i])
    /\ (pc = "triage" /\ ~Failed(raw_data)) => Conforms(LastRow)

\* C9 witness: the row of a spreadsheet whose label was replaced by
\* enforce_extract_constraints has been appended.
C9_Witness ==
    /\ pc = "triage"
    /\ ~Failed(raw_data)
    /\ CurDoc.ekind = "xlsx_schema"
    /\ data.adjusted_from # NoneVal
    /\ LastRow.doc_type \in XlsxLabels

\* C10: after a document's triage block, low_confidence is among its
\* reasons iff the confidence of its ledger row is at most
\* LOW_CONF_THRESHOLD.
C10_TriageCorrectness ==
    (pc = "loop" /\ newly_processed > 0)
        => ("low_confidence" \in triage_reasons
              <=> LastRow.clf_confidence <= Round2(LOW_CONF_THRESHOLD))

\* the document of the row appended last
LastDoc == CHOOSE d \in SeqToSet(extracted) : d.sha = LastRow.sha256

\* enforce_extract_constraints changes the label the overrides gave to the
\* reply `raw` for the document d
enforce_changes(raw, d) ==
    LET b == soft_override(coerce_to_allowed(raw, Labels), d, tax)
    IN  enforce_extract_constraints(b, d.ekind, EnforceHay(b, d),
                                    d.fname).doc_type # b.doc_type

\* C11: after the triage block of a document, failed or not, its reasons
\* contain suggested_label_not_in_taxonomy iff the oracle label of that
\* document was coerced and extract_constraint_adjustment iff
\* enforce_extract_constraints changed the label of that document; a
\* document that failed before either stage ran has neither, and its
\* triage row carries no model_doc_type of another document.
C11_TriageReasonsOfSameDocument ==
    (pc = "loop" /\ newly_processed > 0)
        => IF Failed(raw_data)
           THEN /\ triage_reasons \cap {"suggested_label_not_in_taxonomy",
                                         "extract_constraint_adjustment"} = {}
                /\ triage_reasons # {}
                      => triage_rows[Len(triage_rows)].model_doc_type
                            = NoneVal
           ELSE /\ "suggested_label_not_in_taxonomy" \in triage_reasons
                      <=> raw_data.doc_type \notin Labels
                /\ "extract_constraint_adjustment" \in triage_reasons
                      <=> enforce_changes(raw_data, LastDoc)

\* C12: with a missing or empty taxonomy configuration main() stops before
\* the loop: no document is classified and no ledger row is written.
C12_MissingTaxonomyAborts ==
    Labels = {}
        => /\ pc \in {"idle", "exit1"}
           /\ rows = <<>>
           /\ ~ledger.exists

\* C13: without an API key a run of main() does not fail (it classifies
\* with the heuristic stand-in and writes the ledger).
C13_NoKeyFallsBack ==
    ~api_key => pc # "exit1"

\* every attempt of classify_sample for the current document has failed
Exhausted == Failed(raw_data) /\ raw_data.error = "oracle error"

\* C14: classify_sample makes at most MAX_RETRIES attempts, sleeps
\* RETRY_BASE_SEC * 2^(attempt-1) between consecutive attempts and not
\* after the last one, returns at the first attempt that yields a dict, and
\* when every attempt fails main() goes on to give the document a ledger
\* row with doc_type UNKNOWN_LABEL and confidence 0.3.
C14_BoundedRetriesThenUnknownRow ==
    /\ pc = "classify" => attempt \in 1..MAX_RETRIES
    /\ pc \in {"classify", "coerce"} =>
          /\ Len(sleeps) = attempt - 1
          /\ \A i \in DOMAIN sleeps : sleeps[i] = backoff(i)
    /\ (pc = "append" /\ Exhausted) =>
          /\ attempt = MAX_RETRIES
          /\ Len(sleeps) = MAX_RETRIES - 1
    /\ (pc \in {"done", "crashed"} /\ Exhausted) =>
          \E i \in DOMAIN ledger.rows :
             /\ ledger.rows[i].sha256 = LastRow.sha256
             /\ FailureRow(ledger.rows[i])

\* lo <= c <= hi as Python evaluates it: false for nan
in_range(c, lo, hi) == c # NaNF /\ lo <= c /\ c <= hi

\* the row of the document has been appended
RowWritten == pc \in {"doc_triage", "doc_done"}

\* C15: a document whose oracle reply holds no JSON object, or no doc_type
\* field, gets a ledger row with doc_type UNKNOWN_LABEL.
C15_MalformedReplyIsUnknown ==
    (RowWritten /\ raw_data.doc_type = NoneVal)
        => LastRow.doc_type = UNKNOWN_LABEL

\* C16: whatever confidence the oracle reports (a number, none, or a value
\* that is not a number), the confidence after every stage of the pipeline
\* lies in [0, 1], and so does the confidence of the ledger row.
C16_ConfidenceInUnitInterval ==
    /\ IsBound(data) => in_range(data.confidence, 0, 1000)
    /\ \A i \in DOMAIN rows : in_range(rows[i].clf_confidence, 0, 100)

\* C17: coerce_to_allowed gives UNKNOWN_LABEL, _coerced = true, the raw
\* label as _model_doc_type and a confidence in [0, 0.6] when the raw
\* doc_type is not allowed, and otherwise the raw doc_type, _coerced =
\* false and a confidence in [0, 1].
C17_CoerceToAllowed ==
    (pc = "doc_rules" /\ stage = 0)
        => IF raw_data.doc_type \notin Labels
           THEN /\ data.doc_type = UNKNOWN_LABEL
                /\ data.coerced
                /\ data.model_doc_type = raw_data.doc_type
                /\ in_range(data.confidence, 0, 600)
           ELSE /\ data.doc_type = raw_data.doc_type
                /\ ~data.coerced
                /\ in_range(data.confidence, 0, 1000)

\* the condition of the pitch conflict rule, for the current document
PitchConflictHolds ==
    /\ IsBound(data)
    /\ pitch_conflict(data, CurDoc)
    /\ "pitch_email" \in Labels

\* C18: when the condition of the pitch conflict rule holds, the document
\* is pitch_email with a confidence of at most 0.60 from that rule on,
\* through every later rule and the generic vote to the value
\* soft_override returns, and a text document gets a triage row with the
\* reason low_confidence.
C18_PitchConflictRule ==
    PitchConflictHolds
        => /\ (\/ pc = "doc_rules" /\ stage >= PitchStage
               \/ pc = "doc_enforce")
                 => /\ data.doc_type = "pitch_email"
                    /\ in_range(data.confidence, 0, 600)
           /\ (pc = "doc_done" /\ CurDoc.ekind = "text")
                 => /\ triage_rows # <<>>
                    /\ "low_confidence" \in triage_reasons

\* the condition of the release rule, for the current document
ReleaseRuleHolds ==
    /\ IsBound(data)
    /\ \/ has_any(release_markers, Hay(data, CurDoc))
       \/ "release" \in CurDoc.fname
    /\ "press_release" \in Labels
    /\ ~PitchConflictHolds

\* C19: when the haystack has a release marker or the file name contains
\* "release", press_release is a label and the pitch conflict rule does not
\* apply, soft_override returns press_release with a confidence of at least
\* 0.90, whatever the incoming label, the later rules and the vote tokens.
C19_ReleaseRule ==
    (pc = "doc_enforce" /\ ReleaseRuleHolds)
        => /\ data.doc_type = "press_release"
           /\ in_range(data.confidence, 900, 1000)

\* C20: the ledger row of the spreadsheet Media_List_Q1.xlsx with the
\* columns Outlet, Reporter, Email, Beat has doc_type media_list and a
\* confidence of at least 0.85, whatever the oracle returns.
C20_MediaListScenario ==
    (RowWritten /\ CurDoc = d_medialist)
        => /\ LastRow.doc_type = "media_list"
           /\ in_range(LastRow.clf_confidence, 85, 100)

\* the generic vote is the statement being run
VoteStep == pc = "doc_rules" /\ stage' = VoteStage

\* the number of distinct tokens of the label lab found in the haystack
Score(lab) == vote_hits(tax, lab, Hay(data, CurDoc))

\* the highest score of a label of the taxonomy (0 without labels)
TopScore ==
    IF Labels = {} THEN 0
    ELSE CHOOSE n \in {Score(l) : l \in Labels} :
            \A l \in Labels : Score(l) <= n

\* the first label, in the order of the taxonomy, that has the top score
FirstTop ==
    LET i == CHOOSE j \in DOMAIN tax.labels :
                /\ Score(tax.labels[j]) = TopScore
                /\ \A k \in 1..(j - 1) : Score(tax.labels[k]) < TopScore
    IN  tax.labels[i]

\* the four conditions under which the generic vote replaces the label
VoteApplies ==
    /\ ~data.locked
    /\ TopScore >= 2
    /\ (data.confidence < 850 \/ data.doc_type \in generic)
    /\ FirstTop # data.doc_type

\* C21: the generic vote replaces doc_type, by the best-scoring label,
\* exactly when the result is not locked, that label has at least 2 token
\* hits, the confidence is below 0.85 or the label is press_statement or
\* messaging_one_pager, and the best label differs from the current one;
\* the confidence then becomes max(previous, 0.88); in every other case
\* doc_type and confidence are unchanged.
C21_GenericVoteConditions ==
    [][VoteStep =>
         IF VoteApplies
         THEN /\ data'.doc_type = FirstTop
              /\ data'.doc_type # data.doc_type
              /\ data'.confidence = Max(data.confidence, 880)
         ELSE /\ data'.doc_type = data.doc_type
              /\ data'.confidence = data.confidence]_vars

\* C21 witness: no rule fired for update.docx, and the vote has replaced
\* the oracle's messaging_one_pager by press_release with confidence 0.88.
C21_Witness ==
    /\ pc = "doc_rules"
    /\ stage = VoteStage
    /\ CurDoc = d_tie
    /\ raw_data.doc_type = "messaging_one_pager"
    /\ raw_data.confidence = 500
    /\ data.doc_type = "press_release"
    /\ data.confidence = 880

\* the result after the first k statements of soft_override, for the
\* current document and reply
RECURSIVE after_stage(_)
after_stage(k) ==
    IF k = 0
    THEN coerce_to_allowed(raw_data, Labels)
    ELSE Stage(k, after_stage(k - 1), CurDoc, tax)

\* the statements before the generic vote that set doc_type in this call
RulesThatSetLabel ==
    {k \in 1..(VoteStage - 1) :
        after_stage(k).doc_type # after_stage(k - 1).doc_type}

\* C22: when an override rule of this call has set doc_type, the generic
\* vote of the same call does not replace it, locked or not.
C22_VoteKeepsRuleLabel ==
    [][(VoteStep /\ RulesThatSetLabel # {})
         => data'.doc_type = data.doc_type]_vars

\* the confidence new is the confidence old or a greater number
not_lowered(old, new) ==
    new = old \/ (old # NaNF /\ new # NaNF /\ new > old)

\* C23: every statement of soft_override other than the pitch conflict
\* rule (the rules that go through set_label, and the generic vote) leaves
\* the confidence at least as high as it was; so the confidence that
\* soft_override returns is at least the one it received, unless the pitch
\* conflict rule fired, which caps it at 0.60.
C23_ConfidenceNeverLowered ==
    [][(pc = "doc_rules" /\ stage' # PitchStage
           => not_lowered(data.confidence, data'.confidence))
       /\ (pc = "doc_rules" /\ stage' = PitchStage
           => IF PitchConflictHolds
              THEN data'.confidence = Min(data.confidence, 600)
              ELSE data'.confidence = data.confidence)
       /\ (pc' = "doc_enforce" /\ ~PitchConflictHolds
           => not_lowered(after_stage(0).confidence,
                          data'.confidence))]_vars

\* C23 witness: soft_override has returned for press_release_final.pdf
\* with the oracle's confidence 0.5 raised to the floor 0.90.
C23_Witness ==
    /\ pc = "doc_enforce"
    /\ CurDoc = d_release
    /\ "press_release" \in Labels
    /\ raw_data.confidence = 500
    /\ data.confidence = 900

\* the label violates the subset of the document's extract type
ViolatesSubset(r, ekind) ==
    /\ ALLOWED_BY_EXTRACT(ekind) # {}
    /\ r.doc_type \notin ALLOWED_BY_EXTRACT(ekind)

\* C24: enforce_extract_constraints replaces a label that violates the
\* subset of the extract type by a label of the subset, records the
\* original label in _extract_constraint_adjusted_from and makes the
\* confidence min(previous, 0.85); a label of the subset, or a document of
\* a kind without restriction, is returned unchanged; applying the
\* function to its own result changes nothing.
C24_EnforceFrameAndIdempotence ==
    [][pc = "doc_enforce" =>
         /\ IF ViolatesSubset(data, CurDoc.ekind)
            THEN /\ data'.doc_type \in ALLOWED_BY_EXTRACT(CurDoc.ekind)
                 /\ data'.adjusted_from = data.doc_type
                 /\ data'.confidence =
                       IF data.confidence # NaNF /\ data.confidence > 850
                       THEN 850 ELSE data.confidence
                 /\ data'.doc_subtype = data.doc_subtype
                 /\ data'.coerced = data.coerced
            ELSE data' = data
         /\ enforce_extract_constraints(data', CurDoc.ekind,
                                        EnforceHay(data', CurDoc),
                                        CurDoc.fname) = data']_vars

\* C24 witness: the locked press_release of press_release_tracker.xlsx has
\* been replaced by coverage_tracker with the confidence capped at 0.85.
C24_Witness ==
    /\ pc = "doc_append"
    /\ CurDoc = d_tracker
    /\ data.adjusted_from = "press_release"
    /\ data.doc_type = "coverage_tracker"
    /\ data.confidence = 850

\* C25: for a spreadsheet whose label violates the spreadsheet subset and
\* whose file name or haystack contains "media list",
\* enforce_extract_constraints chooses media_list, whichever other cues the
\* haystack contains.
C25_MediaListCueFirst ==
    [][(/\ pc = "doc_enforce"
        /\ CurDoc.ekind = "xlsx_schema"
        /\ ViolatesSubset(data, CurDoc.ekind)
        /\ \/ "media list" \in EnforceHay(data, CurDoc)
           \/ "media list" \in CurDoc.fname)
         => data'.doc_type = "media_list"]_vars

\* the three functions applied in the order of main() to one oracle reply
Outcome(r, d, t) ==
    LET so == soft_override(coerce_to_allowed(r, SeqToSet(t.labels)), d, t)
    IN  enforce_extract_constraints(so, d.ekind, EnforceHay(so, d), d.fname)

\* the labels of the taxonomy that reach the highest vote score
TopLabels == {l \in Labels : Score(l) = TopScore}

StageTarget(k, allowed) ==
    CASE k \in {1, 2} -> "press_release"
      [] k \in {3, 17} -> "pitch_email"
      [] k = 4 -> "media_response"
      [] k \in {5, 12} -> IF "interview_guide" \in allowed
                          THEN "interview_guide"
                          ELSE "interview_question_bank"
      [] k = 6 -> "media_list"
      [] k = 7 -> "press_statement"
      [] k = 8 -> "speaking_tracker"
      [] k = 9 -> "conference_proposal"
      [] k = 10 -> "editorial_calendar"
      [] k = 11 -> "work_plan|strategy_memo"
      [] k = 13 -> "workback_plan"
      [] k = 14 -> "timeline"
      [] k = 15 -> IF "speaking_tracker" \in allowed
                   THEN "speaking_tracker"
                   ELSE IF "competitive_analysis" \in allowed
                   THEN "competitive_analysis"
                   ELSE IF "media_list" \in allowed
                   THEN "media_list" ELSE NoneVal
      [] k = 16 -> "platform_copy_edits"
      [] k = 18 -> "bio_profile"
      [] k = 19 -> "talking_points"

\* C30: a statement of soft_override whose rule has a target label outside
\* the taxonomy leaves the result as it was (doc_type, confidence and the
\* lock), whether or not the rule's condition holds.
C30_ForeignTargetNoEffect ==
    [][(/\ pc = "doc_rules"
        /\ stage' \in 1..(VoteStage - 1)
        /\ StageTarget(stage', Labels) \notin Labels)
         => data' = data]_vars

\* the sha256 values of the rows of a file ({} when the file is absent)
FileShas(file) ==
    IF file.exists THEN {file.rows[i].sha256 : i \in DOMAIN file.rows} ELSE {}

\* C29: when a run of main() writes its outputs, triage_needs_review.csv
\* then holds a row for every document that this run put in triage and for
\* every document of the ledger that was in the triage queue before the
\* run: the queue covers the triaged documents of all runs.
C29_TriageQueueKeepsEarlierRuns ==
    [][(pc = "loop" /\ pc' = "done")
         => /\ {triage_rows[i].sha256 : i \in DOMAIN triage_rows}
                 \subseteq FileShas(triage_file')
            /\ (FileShas(triage_file) \cap FileShas(ledger'))
                 \subseteq FileShas(triage_file')]_vars

\* C26 as stated: the text sample has at most max_chars characters; a text
\* within the budget is returned unchanged; a longer one gives a sample that
\* begins with the first floor(0.7 * max_chars) characters of the text and,
\* when max_chars - head - 5 is positive, ends with that many last
\* characters of the text.
C26_HeadIsFloor ==
    (pc = "sample_built" /\ extract_obj.type = "text") =>
        LET t == extract_obj.text
            head == (7 * max_chars) \div 10
            tail == max_chars - head - Len(joiner)
        IN  /\ Len(sample) <= max_chars
            /\ Len(t) <= max_chars => sample = t
            /\ Len(t) > max_chars =>
                  /\ Take(sample, head) = Take(t, head)
                  /\ tail > 0 => LastChars(sample, tail) = LastChars(t, tail)

\* C26 amended: the same with the head budget int(max_chars * 0.7) of the
\* double product, which is floor(0.7 * max_chars) except for budgets such
\* as 90, 170 and 180 (the only ones below 200), where it is one less (62,
\* not 63, for 90) and the tail one more; with a
\* non-negative tail budget the sample is head, "\n...\n" and tail and has
\* exactly max_chars characters.
C26_HeadIsDoubleProduct ==
    (pc = "sample_built" /\ extract_obj.type = "text") =>
        LET t == extract_obj.text
            head == (7 * max_chars) \div 10
                    - (IF max_chars \in {90, 170, 180} THEN 1 ELSE 0)
            tail == max_chars - head - Len(joiner)
        IN  /\ Len(sample) <= max_chars
            /\ Len(t) <= max_chars => sample = t
            /\ Len(t) > max_chars =>
                  /\ Take(sample, head) = Take(t, head)
                  /\ tail > 0 => LastChars(sample, tail) = LastChars(t, tail)
                  /\ tail >= 0 =>
                        /\ Len(sample) = max_chars
                        /\ SubSeq(sample, head + 1, head + Len(joiner)) = joiner

\* C26 witness: a text of 93 characters sampled with the budget 90: the
\* joiner begins at position 63, after a head of 62 characters.
C26_Witness ==
    /\ pc = "sample_built"
    /\ extract_obj.type = "text"
    /\ max_chars = 90
    /\ Len(extract_obj.text) = 93
    /\ Len(sample) = 90
    /\ sample[62] = 1062
    /\ sample[63] = 10
    /\ sample[90] = 1093

\* the record of slide i as extracted.jsonl holds it, if the slide has text
WrittenRecord(i) ==
    LET si == GetSlide(jsonl.slides, StrKey(i))
    IN  IF si = NoSlide THEN <<>> ELSE <<slide_record(i, si)>>

\* C28: the sample built for a slides record that main() read back from
\* extracted.jsonl is the "[Slide i] <title>\n<body>" records of the slides
\* 1 to 3 that have text, joined and cut to the budget; with a positive
\* budget it is not empty when one of these slides has text.
C28_SlidesSampleAfterJsonl ==
    (/\ pc = "sample_built"
     /\ extract_obj.type = "slides"
     /\ jsonl.type = "slides")
      => /\ sample =
              Take(join_parts(WrittenRecord(1) \o WrittenRecord(2)
                              \o WrittenRecord(3)), max_chars)
         /\ (/\ max_chars > 0
             /\ \E i \in 1..3 : WrittenRecord(i) # <<>>)
              => sample # <<>>

====
